---- MODULE Spec2Model ----
(***************************************************************************)
(* Model of rtv's lazy content layer (rtv/content.py):                     *)
(*   - SubredditContent / SubscriptionContent: a listing store grown by    *)
(*     guarded pulls on an upstream iterator              (SpecListing)    *)
(*   - Content.flatten_comments: the work-list flattener  (SpecFlatten)    *)
(*   - SubmissionContent: get / toggle on the flattened comment sequence   *)
(*     (SpecSubmission; SpecRetag adds a caller that rewrites the tag of   *)
(*     a record it was handed; SpecContent is one content object of        *)
(*     either kind; SpecIndent is a submission content object made with    *)
(*     a small max_indent_level; SpecExpand is SpecSubmission with the     *)
(*     caller's first toggle on a collapsed record)                        *)
(*   - Content.iterate: one generator over a content object (SpecIterate)  *)
(* of the subscription page of rtv/subscription.py:                        *)
(*   - SubscriptionPage: loop, refresh, select, close        (SpecPage)    *)
(* and of the progress guard of rtv/curses_helpers.py:                     *)
(*   - LoadScreen: guard scopes and their indicator threads (SpecLoader)   *)
(***************************************************************************)
EXTENDS Integers, Sequences, FiniteSets, TLC

VARIABLES
    \* ---- listing content (SubredditContent / SubscriptionContent) ----
    cls,              \* which class the object is: "Subreddit" or "Subscription"
    obj,              \* "new" (constructor not run), "live", or the error the
                      \* constructor raised ("SubredditError", "SubscriptionError")
    src,              \* the upstream listing: what each pull delivers, "ok" or "fail"
    srcMode,          \* "generator" (an exception finishes it) or "iterator" (it goes on)
    pos,              \* number of the next upstream element (1-based)
    closed,           \* the upstream iterator has finished (StopIteration from now on)
    listing_data,     \* self._submission_data / self._subscription_data
    loader_exception, \* self._loader.exception
    l_last,           \* observer: the last listing call and what it did
    l_hist,           \* observer: delivered elements, largest index asked, first stop/failure
    \* ---- Content.flatten_comments ----
    f_in,             \* the forest handed to flatten_comments, and root_level
    f_out,            \* its result
    \* ---- SubmissionContent ----
    s_obj,            \* "new", "live", "failed"
    comment_data,     \* self._comment_data
    submission_data,  \* self._submission_data (the header record)
    s_loader,         \* the loader of the submission content: exception and depth
    s_next_id,        \* next fresh upstream object id
    s_last,           \* observer: the last call on the submission content
    s_snap,           \* observer: the comment sequence before a collapse / expand pair
    s_cap,            \* self.max_indent_level
    \* ---- a generator made by Content.iterate ----
    it,               \* its arguments, the index it is at, what it yielded, how it ended
    \* ---- SubscriptionPage (subscription.py) ----
    p_obj,            \* "idle" (no page), "new", "live", "failed" (constructor raised)
    p_content,        \* self.content: number of the content object, 0 for none
    p_nav,            \* self.nav: the navigator, the content it is bound to, its index
    p_subreddit_data, \* self.subreddit_data
    p_active,         \* self.active: "None", "True" or "False"
    p_pc,             \* where loop() is: "off", "loop" (inside while), "exited"
    p_last,           \* observer: the last command of the page and what it did
    \* ---- LoadScreen (curses_helpers.py) ----
    ld_obj,           \* "idle" (no LoadScreen) or "live"
    ld_is_running,    \* self._is_running (None and False both read as false)
    ld_animator,      \* self._animator: number of the thread it refers to, 0 for None
    ld_thread,        \* the indicator threads: where each is in animate, whether it drew;
                      \* observers: where it was when the exit of its scope cleared
                      \* the flag ("none" before), frames drawn since then
    ld_scopes,        \* the guard scopes the main thread is inside, outermost first
    ld_started,       \* number of guard scopes entered so far
    ld_ended,         \* observer: the scopes whose exit has returned
    ld_late           \* observer: a thread drew after the scope that started it ended

l_vars == <<cls, obj, src, srcMode, pos, closed, listing_data, loader_exception, l_last, l_hist>>
f_vars == <<f_in, f_out>>
s_vars == <<s_obj, comment_data, submission_data, s_loader, s_next_id, s_last, s_snap,
           s_cap>>
it_vars == <<it>>
p_vars == <<p_obj, p_content, p_nav, p_subreddit_data, p_active, p_pc, p_last>>
ld_vars == <<ld_obj, ld_is_running, ld_animator, ld_thread, ld_scopes, ld_started,
            ld_ended, ld_late>>
vars == <<l_vars, f_vars, s_vars, ld_vars, it_vars, p_vars>>

\* ------------------------------------------------------------------ bounds
MaxSrc == 4          \* longest upstream listing
MaxIndex == 3        \* largest index a caller asks for
Widths == {40, 70}   \* n_cols values callers pass
DefaultCols == 70
MaxFlatNodes == 5    \* most nodes of a forest handed to flatten_comments
RootLevels == {0, 2} \* root_level values handed to flatten_comments
MaxNodes == 3        \* most upstream comment objects of one submission content,
                     \* those of its continuation loads included
MaxYield == 6        \* most records one generator of iterate is asked for
Steps == {-2, -1, 0, 1, 2}  \* step values handed to iterate
MaxRefresh == 2      \* most content objects a page makes after its first
MaxLateFrames == 2   \* most frames counted for a thread after the exit of its scope
MaxThreads == 3      \* most guard scopes entered on one LoadScreen
MaxDepth == 2        \* most guard scopes active at once
indent_size == 2
max_indent_level == 8

Nil == -1            \* "no value" for integer observers
NoRec == [type |-> "None"]

Max(a, b) == IF a >= b THEN a ELSE b
Min(a, b) == IF a <= b THEN a ELSE b

\* ------------------------------------------------------------ text helpers
\* Length of the raw title/body of upstream object `id`.
TextLen(id) == 25 * id + 5

\* Digits of a positive post number.
Digits(n) == IF n < 10 THEN 1 ELSE 2

\* wrap_text: number of lines a text of `len` characters takes at `width`
\* (an empty text has no paragraph, hence no line).
wrap_text(len, width) ==
    IF len = 0 THEN 0 ELSE (len + width - 1) \div width

\* ----------------------------------------------------- upstream iterator
\* next(self._submissions): the outcome of one pull, and the iterator after it.
UpstreamNext(p, c) ==
    IF c \/ p > Len(src)
      THEN [outcome |-> "stop", elem |-> 0, pos |-> p, closed |-> TRUE]
    ELSE IF src[p] = "fail"
      THEN [outcome |-> "fail", elem |-> 0, pos |-> p + 1,
            closed |-> (srcMode = "generator")]
    ELSE [outcome |-> "ok", elem |-> p, pos |-> p + 1, closed |-> FALSE]

\* ------------------------------------------------------- guard (LoadScreen)
\* self._loader.exception after a guard scope whose action ended with `outcome`:
\* the scope starts with no exception and stores the one the action raised.
LoaderException_stale(outcome) == "FetchError"
LoaderException(outcome) ==
    CASE outcome = "ok" -> "None"
      [] outcome = "fail" -> "FetchError"
      [] outcome = "stop" -> "StopIteration"

\* Whether the guard lets the exception propagate out of the with block
\* (StopIteration is not one of the exceptions it reports and swallows).
LoaderPropagates(outcome) == outcome = "stop"

\* ---------------------------------------------------------- listing: get
\* strip_praw_submission / strip_praw_subscription, then the caller's stamping.
strip_praw_submission(elem) ==
    [type |-> "Submission", object |-> elem, index |-> Nil,
     title |-> [prefix |-> << >>, raw |-> elem],
     split_title |-> [width |-> 0, lines |-> 0], n_rows |-> Nil, offset |-> Nil]

strip_praw_subscription(elem) ==
    [type |-> "Subscription", object |-> elem, index |-> Nil,
     title |-> [prefix |-> << >>, raw |-> elem],
     split_title |-> [width |-> 0, lines |-> 0], n_rows |-> Nil, offset |-> Nil]

\* data['index'] = index; data['title'] = '{0}. {1}'.format(index+1, title)
StampSubmission(data, index) ==
    [data EXCEPT !.index = index,
                 !.title = [@ EXCEPT !.prefix = <<index + 1>> \o @]]

\* The record the pull loop appends for a delivered element.
NewRecord(elem, index) ==
    IF cls = "Subreddit"
      THEN StampSubmission(strip_praw_submission(elem), index)
      ELSE strip_praw_subscription(elem)

\* Characters of a record's title, position prefix "N. " included.
RECURSIVE PrefixLen(_)
PrefixLen(p) == IF p = << >> THEN 0 ELSE Digits(Head(p)) + 2 + PrefixLen(Tail(p))
TitleLen(data) == PrefixLen(data.title.prefix) + TextLen(data.title.raw)

\* while index >= len(self._submission_data):
NeedPull_eager(index, n) == index + 1 >= n
NeedPull(index, n) == index >= n

\* self._submission_data.append(data)
StoreAppend_front(store, data) == <<data>> \o store
StoreAppend(store, data) == Append(store, data)

\* What get raises after a pull that ended with `outcome` under the guard:
\* StopIteration -> IndexError, a captured exception -> IndexError.
PullSignal_ignore(outcome, exc) ==
    IF outcome = "stop" THEN "IndexError" ELSE "none"
PullSignal_leak(outcome, exc) ==
    IF outcome = "stop" THEN "StopIteration"
    ELSE IF exc # "None" THEN "IndexError" ELSE "none"
PullSignal(outcome, exc) ==
    IF outcome = "stop" /\ LoaderPropagates(outcome) THEN "IndexError"
    ELSE IF exc # "None" THEN "IndexError" ELSE "none"

\* The pull loop of get. s: [store, pos, closed, exc, pulls, delivered, raised, cause]
RECURSIVE PullLoop(_, _)
\* raise IndexError out of the while loop: what was appended stays appended
PullRaised_rollback(s, sig, outcome) ==
    [s EXCEPT !.raised = sig, !.cause = outcome,
              !.store = IF @ = << >> THEN @ ELSE SubSeq(@, 1, Len(@) - 1)]
PullRaised(s, sig, outcome) == [s EXCEPT !.raised = sig, !.cause = outcome]

PullLoop(index, s) ==
    IF ~NeedPull(index, Len(s.store)) THEN s
    ELSE LET r == UpstreamNext(s.pos, s.closed)
             exc == LoaderException(r.outcome)
             sig == PullSignal(r.outcome, exc)
             s1 == [s EXCEPT !.pos = r.pos, !.closed = r.closed, !.exc = exc,
                             !.pulls = @ + 1]
         IN IF sig # "none"
              THEN PullRaised(s1, sig, r.outcome)
              ELSE PullLoop(index,
                     [s1 EXCEPT !.store = StoreAppend(@, NewRecord(r.elem, index)),
                                !.delivered = Append(@, r.elem)])

\* Rows of a listing record: title lines + 3 (submission) or + 1 (subscription).
ListingRows(lines) == IF cls = "Subreddit" THEN lines + 3 ELSE lines + 1

\* The tail of get: re-wrap the record at `index` in place.
Rewrap_restamp(data, n_cols) ==
    LET lines == wrap_text(TitleLen(data), n_cols)
    IN [data EXCEPT !.title = [@ EXCEPT !.prefix = <<data.index + 1>> \o @],
                    !.split_title = [width |-> n_cols, lines |-> lines],
                    !.n_rows = ListingRows(lines),
                    !.offset = 0]
Rewrap(data, n_cols) ==
    LET lines == wrap_text(TitleLen(data), n_cols)
    IN [data EXCEPT !.split_title = [width |-> n_cols, lines |-> lines],
                    !.n_rows = ListingRows(lines),
                    !.offset = 0]

\* SubredditContent.get / SubscriptionContent.get as a function of the state:
\* [store, pos, closed, exc, pulls, delivered, raised, cause, result]
ListingGetFrom(s0, index, n_cols) ==
    IF index < 0
      THEN [s0 EXCEPT !.raised = "IndexError", !.cause = "negative"]
           @@ [result |-> NoRec]
    ELSE LET s == PullLoop(index, s0)
         IN IF s.raised # "none" THEN s @@ [result |-> NoRec]
            ELSE LET data == Rewrap(s.store[index + 1], n_cols)
                 IN [s EXCEPT !.store = [@ EXCEPT ![index + 1] = data]]
                    @@ [result |-> data]

\* get on the content object whose fields are the state variables
ListingGet(index, n_cols) ==
    ListingGetFrom([store |-> listing_data, pos |-> pos, closed |-> closed,
                    exc |-> loader_exception, pulls |-> 0,
                    delivered |-> l_hist.delivered, raised |-> "none",
                    cause |-> "none"], index, n_cols)

\* The observers after a call.
HistAfter(index, g) ==
    [delivered |-> g.delivered,
     maxReq |-> Max(l_hist.maxReq, index),
     stopAt |-> IF g.cause = "stop" /\ l_hist.stopAt = Nil THEN index
                ELSE IF g.cause = "stop" THEN Min(l_hist.stopAt, index)
                ELSE l_hist.stopAt,
     failPos |-> IF g.cause = "fail"
                 THEN (IF l_hist.failPos = Nil THEN Len(g.store)
                       ELSE Min(l_hist.failPos, Len(g.store)))
                 ELSE l_hist.failPos]

LastAfter(op, index, n_cols, g) ==
    [op |-> op, index |-> index, n_cols |-> n_cols, lenBefore |-> Len(listing_data),
     pulls |-> g.pulls, raised |-> g.raised, cause |-> g.cause, result |-> g.result,
     stopBefore |-> l_hist.stopAt, failBefore |-> l_hist.failPos,
     repeat |-> /\ op = "get" /\ l_last.op \in {"init", "get"}
                /\ l_last.raised = "none"
                /\ l_last.index = index /\ l_last.n_cols = n_cols]

\* __init__: self.get(0); IndexError becomes SubredditError / SubscriptionError.
\* except IndexError: raise exceptions.SubredditError / SubscriptionError
ConstructError(c) == IF c = "Subreddit" THEN "SubredditError" ELSE "SubscriptionError"

\* What the constructor leaves: an object, or the error raised in its place.
ConstructOutcome_live(c, raised) == "live"
ConstructOutcome(c, raised) == IF raised = "none" THEN "live" ELSE ConstructError(c)

Construct ==
    /\ obj = "new"
    /\ LET g == ListingGet(0, DefaultCols)
       IN /\ obj' = ConstructOutcome(cls, g.raised)
          /\ listing_data' = g.store
          /\ pos' = g.pos
          /\ closed' = g.closed
          /\ loader_exception' = g.exc
          /\ l_last' = LastAfter("init", 0, DefaultCols, g)
          /\ l_hist' = HistAfter(0, g)
    /\ UNCHANGED <<cls, src, srcMode, f_vars, s_vars, ld_vars, it_vars, p_vars>>

\* get(index, n_cols) on a live listing content object.
Get(index, n_cols) ==
    /\ obj = "live"
    /\ LET g == ListingGet(index, n_cols)
       IN /\ listing_data' = g.store
          /\ pos' = g.pos
          /\ closed' = g.closed
          /\ loader_exception' = g.exc
          /\ l_last' = LastAfter("get", index, n_cols, g)
          /\ l_hist' = HistAfter(index, g)
    /\ UNCHANGED <<cls, obj, src, srcMode, f_vars, s_vars, ld_vars, it_vars, p_vars>>

ListingGetAny == \E index \in -1..MaxIndex, n_cols \in Widths : Get(index, n_cols)

\* Upstream listings: every sequence of "ok"/"fail" up to MaxSrc elements.
Sources == UNION {[1..n -> {"ok", "fail"}] : n \in 0..MaxSrc}

ListingIdle ==
    /\ cls = "Subreddit" /\ obj = "idle" /\ src = << >> /\ srcMode = "generator"
    /\ pos = 1 /\ closed = FALSE /\ listing_data = << >> /\ loader_exception = "None"
    /\ l_last = [op |-> "none"] /\ l_hist = [delivered |-> << >>]

FlattenIdle == f_in = [n |-> 0] /\ f_out = [status |-> "idle"]

SubmissionIdle ==
    /\ s_obj = "idle" /\ comment_data = << >> /\ submission_data = NoRec
    /\ s_loader = [exception |-> "None", depth |-> 0]
    /\ s_next_id = 1
    /\ s_last = [op |-> "none"] /\ s_snap = [stage |-> 0] /\ s_cap = 0

LoaderIdle ==
    /\ ld_obj = "idle" /\ ld_is_running = FALSE /\ ld_animator = 0
    /\ ld_thread = << >> /\ ld_scopes = << >> /\ ld_started = 0
    /\ ld_ended = {} /\ ld_late = FALSE

IterIdle == it = [status |-> "idle"]

PageIdle ==
    /\ p_obj = "idle" /\ p_content = 0 /\ p_nav = [id |-> 0]
    /\ p_subreddit_data = NoRec /\ p_active = "None" /\ p_pc = "off"
    /\ p_last = [op |-> "none"]

ListingInit ==
    /\ cls \in {"Subreddit", "Subscription"}
    /\ obj = "new"
    /\ src \in Sources
    /\ srcMode \in {"generator", "iterator"}
    /\ pos = 1
    /\ closed = FALSE
    /\ listing_data = << >>
    /\ loader_exception = "None"
    /\ l_last = [op |-> "none", index |-> Nil, n_cols |-> 0, lenBefore |-> 0, pulls |-> 0,
                 raised |-> "none", cause |-> "none", result |-> NoRec,
                 stopBefore |-> Nil, failBefore |-> Nil, repeat |-> FALSE]
    /\ l_hist = [delivered |-> << >>, maxReq |-> Nil, stopAt |-> Nil, failPos |-> Nil]

InitListing == ListingInit /\ FlattenIdle /\ SubmissionIdle /\ LoaderIdle /\ IterIdle /\ PageIdle
NextListing == Construct \/ ListingGetAny
SpecListing == InitListing /\ [][NextListing]_vars

\* ------------------------------------------------------ listing: claims
\* The identity of a stored record: everything but the width-bound display
\* fields (split_title, n_rows, offset), which get rewrites in place by design.
Core(data) == [object |-> data.object, type |-> data.type, index |-> data.index,
               title |-> data.title]
CoreSeq(store) == [j \in 1..Len(store) |-> Core(store[j])]
IsPrefix(a, b) == Len(a) <= Len(b) /\ SubSeq(b, 1, Len(a)) = a

\* C1: a listing get with index < len(store) issues no upstream pull; one with
\* index >= len(store) issues at most index + 1 - len(store) pulls; so the store
\* never holds more than 1 + the largest index ever requested.
C1_PullsBounded ==
    l_last.op \in {"init", "get"} =>
        /\ (l_last.index < l_last.lenBefore => l_last.pulls = 0)
        /\ (l_last.index >= l_last.lenBefore =>
                l_last.pulls <= l_last.index + 1 - l_last.lenBefore)
        /\ Len(listing_data) <= 1 + l_hist.maxReq

\* C1 witness: one get advanced the store by several elements, one pull each.
C1_Witness ==
    /\ l_last.op = "get" /\ l_last.raised = "none"
    /\ l_last.pulls >= 2
    /\ l_last.pulls = l_last.index + 1 - l_last.lenBefore
    /\ Len(listing_data) = 1 + l_hist.maxReq

\* C2: across get calls the store only grows by appending: the records held
\* before a step are, in the same order, a prefix of those held after it.
C2_AppendOnly == [][IsPrefix(CoreSeq(listing_data), CoreSeq(listing_data'))]_vars

\* C2 witness: a get on a non-empty store that appended to it.
C2_Witness ==
    /\ l_last.op = "get" /\ l_last.lenBefore >= 2
    /\ Len(listing_data) > l_last.lenBefore

\* C3: once get(k) signalled out-of-range because the upstream iterator was
\* exhausted, every later get(j) with j >= k signals out-of-range too.
C3_ExhaustionSticks ==
    (l_last.op = "get" /\ l_last.stopBefore # Nil /\ l_last.index >= l_last.stopBefore)
        => l_last.raised = "IndexError"

\* C3 witness: a get beyond an index that had already hit exhaustion.
C3_Witness ==
    /\ l_last.op = "get" /\ l_last.stopBefore # Nil
    /\ l_last.index > l_last.stopBefore
    /\ l_last.raised = "IndexError"
    /\ Len(listing_data) >= 2

\* C4 (as claimed): after a get whose guarded pull for store position n raised a
\* fetch failure, every later get(index >= n) signals out-of-range without
\* another pull on the upstream iterator.
C4_NoPullAfterFailure ==
    (l_last.op = "get" /\ l_last.failBefore # Nil /\ l_last.index >= l_last.failBefore)
        => (l_last.raised = "IndexError" /\ l_last.pulls = 0)

\* The upstream elements that can be delivered, in upstream order.
Deliverable == SelectSeq([p \in 1..Len(src) |-> p], LAMBDA p : src[p] = "ok")

\* C5: the record at store position j is the projection of the j-th element
\* the upstream iterator delivered: none skipped, duplicated or out of order.
C5_StoreIsDelivered ==
    /\ Len(listing_data) = Len(l_hist.delivered)
    /\ Len(listing_data) <= Len(Deliverable)
    /\ \A j \in 1..Len(listing_data) :
           /\ listing_data[j].object = l_hist.delivered[j]
           /\ listing_data[j].object = Deliverable[j]

\* C5 witness: three records stored by a get that advanced more than one
\* position, after a failed pull in between.
C5_Witness ==
    /\ Len(listing_data) >= 3
    /\ l_last.op = "get" /\ l_last.pulls >= 2 /\ l_last.raised = "none"
    /\ \E j \in 1..Len(listing_data) : listing_data[j].object # j

\* C6 (as claimed): every SubredditContent record at position j carries the
\* index label j and a title prefixed with the 1-based position j + 1.
C6_PositionLabels ==
    cls = "Subreddit" =>
        \A j \in 1..Len(listing_data) :
            /\ listing_data[j].index = j - 1
            /\ listing_data[j].title.prefix = <<j>>

C37_NoRollback ==
    [][(/\ l_last.op = "get" /\ l_last.raised = "IndexError" /\ l_last.pulls >= 2) =>
         /\ Len(listing_data) = l_last.lenBefore + l_last.pulls - 1
         /\ Len(listing_data) = Len(l_hist.delivered)
         /\ \A j \in (l_last.lenBefore + 1)..Len(listing_data) :
               listing_data[j].object = l_hist.delivered[j]
         /\ (/\ l_last'.op = "get" /\ l_last' # l_last
             /\ l_last'.index >= l_last.lenBefore
             /\ l_last'.index < Len(listing_data)) =>
               /\ l_last'.raised = "none" /\ l_last'.pulls = 0
               /\ Core(l_last'.result) = Core(listing_data[l_last'.index + 1])
               /\ Len(listing_data') = Len(listing_data)]_vars

\* C37 witness: a get that asked beyond the store made two successful pulls
\* and then a pull that failed; the two elements are in the store.
C37_Witness ==
    /\ l_last.op = "get" /\ l_last.raised = "IndexError" /\ l_last.cause = "fail"
    /\ l_last.pulls = 3 /\ l_last.index > l_last.lenBefore
    /\ Len(listing_data) = l_last.lenBefore + 2

\* C24: constructing a listing content object resolves index 0 at once: when
\* the first upstream pull finds the upstream exhausted or fails, construction
\* raises SubredditError / SubscriptionError and no object results; otherwise
\* the store holds exactly one record after construction, and every live
\* listing content object has a non-empty store.
C24_ConstructResolvesFirst ==
    /\ obj = "live" => Len(listing_data) >= 1
    /\ (cls \in {"Subreddit", "Subscription"} /\ obj # "new") =>
          /\ obj = "live" <=> (src # << >> /\ src[1] = "ok")
          /\ obj # "live" =>
                /\ obj = (IF cls = "Subreddit" THEN "SubredditError"
                          ELSE "SubscriptionError")
                /\ l_last.op = "init" /\ l_last.raised = "IndexError"
          /\ (obj = "live" /\ l_last.op = "init") =>
                /\ Len(listing_data) = 1 /\ l_last.pulls = 1
                /\ l_last.raised = "none"

\* C24 witness: a subscription listing was constructed over an upstream with
\* several items, and its store holds the one record of index 0.
C24_Witness ==
    /\ cls = "Subscription" /\ obj = "live" /\ l_last.op = "init"
    /\ Len(src) >= 2 /\ Len(listing_data) = 1

\* ------------------------------------------------------ comment forests
\* A PRAW comment forest of F.n nodes, numbered 1..F.n: F.par[i] is the parent
\* of node i (0 for a root), children in number order. F.attr[i] is
\*   "Comment" (a comment whose reply list is set), "Unset" (a comment whose
\*   _replies is None), "More0"/"More2" (a MoreComments marker, count 0 / 2).
\* F.base + i is the identity of the upstream object of node i.
Attrs == {"Comment", "Unset", "More0", "More2"}

RECURSIVE ForestsOf(_)
ForestsOf(n) ==
    IF n = 0 THEN {[n |-> 0, par |-> << >>, attr |-> << >>]}
    ELSE LET Smaller == ForestsOf(n - 1)
         IN Smaller \cup
            {[n |-> F.n + 1, par |-> Append(F.par, k), attr |-> Append(F.attr, a)] :
               <<F, k, a>> \in
                 {x \in Smaller \X (0..(n - 1)) \X Attrs :
                    /\ x[1].n = n - 1
                    /\ (x[2] = 0 \/ (x[2] <= x[1].n /\ x[1].attr[x[2]] = "Comment"))}}

Iota(n) == [i \in 1..n |-> i]
Children(F, k) == SelectSeq(Iota(F.n), LAMBDA i : F.par[i] = k)

IsMoreComments(F, i) == F.attr[i] \in {"More0", "More2"}
MoreCount(F, i) == IF F.attr[i] = "More2" THEN 2 ELSE 0

\* No source anomaly: no unset reply list, no zero-count marker.
WellFormed(F) == \A i \in 1..F.n : F.attr[i] \notin {"Unset", "More0"}

\* ------------------------------------------------ Content.flatten_comments
\* stack[0:0] = nested
PushNested_back(stack, nested) == stack \o nested
PushNested(stack, nested) == nested \o stack

\* n.nested_level = item.nested_level + 1
ChildLevel(level) == level + 1

\* if item.count == 0: continue
Discarded(F, item) == MoreCount(F, item) = 0

\* One run of the while loop.
\* w: [stack, level, replies, unset, retval, raised, adopted]
\*   level[i]   item.nested_level (Nil: never assigned)
\*   replies[i] item._replies when set, unset[i] when it is None
\*   adopted    observer: each comment popped with its reply list unset and
\*              the element that stack.pop(0) then took from the work list
RECURSIVE FlattenLoop(_, _)
FlattenLoop(F, w) ==
    IF w.stack = << >> THEN w
    ELSE
      LET item == Head(w.stack)
          rest == Tail(w.stack)
      IN IF IsMoreComments(F, item)
           THEN IF Discarded(F, item)
                  THEN FlattenLoop(F, [w EXCEPT !.stack = rest])
                  ELSE FlattenLoop(F, [w EXCEPT !.stack = rest,
                                                !.retval = Append(@, item)])
         ELSE IF w.unset[item] /\ rest = << >>
           THEN [w EXCEPT !.stack = rest, !.raised = "IndexError"]
         ELSE
           LET adopt == w.unset[item]
               nested == IF adopt THEN <<Head(rest)>> ELSE w.replies[item]
               rest2 == IF adopt THEN Tail(rest) ELSE rest
           IN FlattenLoop(F,
                [w EXCEPT !.replies = [@ EXCEPT ![item] = nested],
                          !.unset = [@ EXCEPT ![item] = FALSE],
                          !.level = [i \in 1..F.n |->
                                       IF \E k \in 1..Len(nested) : nested[k] = i
                                         THEN ChildLevel(w.level[item]) ELSE w.level[i]],
                          !.stack = PushNested(rest2, nested),
                          !.retval = Append(@, item),
                          !.adopted = IF adopt
                                        THEN Append(@, [item |-> item,
                                                        child |-> Head(rest)])
                                        ELSE @])

\* flatten_comments(comments, root_level): the flattened nodes with their
\* nested_level, or the exception it raises.
flatten_comments(F, root_level) ==
    LET roots == Children(F, 0)
        w0 == [stack |-> roots,
               level |-> [i \in 1..F.n |-> IF F.par[i] = 0 THEN root_level ELSE Nil],
               replies |-> [i \in 1..F.n |-> Children(F, i)],
               unset |-> [i \in 1..F.n |-> F.attr[i] = "Unset"],
               retval |-> << >>,
               raised |-> "none",
               adopted |-> << >>]
        w == FlattenLoop(F, w0)
    IN [raised |-> w.raised,
        adopted |-> w.adopted,
        out |-> IF w.raised # "none" THEN << >>
                ELSE [k \in 1..Len(w.retval) |->
                        [node |-> w.retval[k], level |-> w.level[w.retval[k]]]]]

Flatten ==
    /\ f_out.status = "new"
    /\ LET r == flatten_comments(f_in.forest, f_in.root_level)
       IN f_out' = [status |-> "done", raised |-> r.raised, out |-> r.out,
                    adopted |-> r.adopted]
    /\ UNCHANGED <<f_in, l_vars, s_vars, ld_vars, it_vars, p_vars>>

FlattenInit ==
    /\ f_in \in [forest : ForestsOf(MaxFlatNodes), root_level : RootLevels]
    /\ f_out = [status |-> "new", raised |-> "none", out |-> << >>,
                adopted |-> << >>]

InitFlatten == FlattenInit /\ ListingIdle /\ SubmissionIdle /\ LoaderIdle /\ IterIdle /\ PageIdle
NextFlatten == Flatten
SpecFlatten == InitFlatten /\ [][NextFlatten]_vars

\* ------------------------------------------------------ flatten: claims
\* The preorder walk of the forest, straight from its tree structure.
RECURSIVE PreorderOf(_, _, _)
PreorderOf(F, nodes, d) ==
    IF nodes = << >> THEN << >>
    ELSE <<[node |-> Head(nodes), level |-> d]>>
         \o PreorderOf(F, Children(F, Head(nodes)), d + 1)
         \o PreorderOf(F, Tail(nodes), d)

\* Three roots c1 c2 c3 (nodes 1 2 3), c2 with children c2a c2b (nodes 4 5).
ScenarioForest ==
    [n |-> 5, par |-> <<0, 0, 0, 2, 2>>,
     attr |-> <<"Comment", "Comment", "Comment", "Comment", "Comment">>]

\* C10: on a well-formed forest flatten_comments returns every node exactly
\* once, in preorder, each root at root_level and each child one level below
\* its parent; the scenario forest yields [c1, c2, c2a, c2b, c3] at depths
\* [0, 0, 1, 1, 0].
C10_FlattenIsPreorder ==
    (f_out.status = "done" /\ WellFormed(f_in.forest)) =>
        /\ f_out.raised = "none"
        /\ f_out.out = PreorderOf(f_in.forest, Children(f_in.forest, 0), f_in.root_level)
        /\ Len(f_out.out) = f_in.forest.n
        /\ \A i \in 1..f_in.forest.n : \E k \in 1..Len(f_out.out) : f_out.out[k].node = i
        /\ \A k \in 1..Len(f_out.out) :
             LET i == f_out.out[k].node
                 p == f_in.forest.par[i]
             IN IF p = 0 THEN f_out.out[k].level = f_in.root_level
                ELSE \E m \in 1..(k - 1) : /\ f_out.out[m].node = p
                                           /\ f_out.out[k].level = f_out.out[m].level + 1
        /\ (f_in.forest = ScenarioForest /\ f_in.root_level = 0) =>
             f_out.out = <<[node |-> 1, level |-> 0], [node |-> 2, level |-> 0],
                           [node |-> 4, level |-> 1], [node |-> 5, level |-> 1],
                           [node |-> 3, level |-> 0]>>

\* C10 witness: the scenario forest has been flattened.
C10_Witness ==
    /\ f_out.status = "done" /\ f_out.raised = "none"
    /\ f_in.forest = ScenarioForest /\ f_in.root_level = 0
    /\ Len(f_out.out) = 5

\* C11 (as claimed): for an input forest that holds a continuation marker of
\* count 0 (as a root, as a child, or adopted by a comment whose reply list is
\* unset), the output of flatten_comments holds no such marker and holds
\* every other node of the input exactly once.
C11_ZeroMarkersDropped ==
    (/\ f_out.status = "done"
     /\ \E i \in 1..f_in.forest.n : f_in.forest.attr[i] = "More0") =>
        /\ \A k \in 1..Len(f_out.out) :
              ~(/\ IsMoreComments(f_in.forest, f_out.out[k].node)
                /\ MoreCount(f_in.forest, f_out.out[k].node) = 0)
        /\ \A i \in 1..f_in.forest.n :
              f_in.forest.attr[i] # "More0" =>
                Cardinality({k \in 1..Len(f_out.out) : f_out.out[k].node = i}) = 1

\* C12 (as claimed): flatten_comments never raises, whatever anomalies the
\* input forest holds; a comment whose reply list is unset is repaired also
\* when it is the last element of the work list.
C12_FlattenNeverRaises ==
    f_out.status = "done" => f_out.raised = "none"

\* C32 (as claimed): when flatten_comments pops a comment whose reply list
\* is unset and the work list is not empty, the element at the front of the
\* work list is emitted right after that comment, one level below it,
\* whatever kind of node it is, and it is emitted only once.
C32_AdoptedEmittedNext ==
    f_out.status = "done" =>
        \A a \in 1..Len(f_out.adopted) :
            LET item == f_out.adopted[a].item
                child == f_out.adopted[a].child
            IN /\ \E k \in 1..(Len(f_out.out) - 1) :
                     /\ f_out.out[k].node = item
                     /\ f_out.out[k + 1].node = child
                     /\ f_out.out[k + 1].level = f_out.out[k].level + 1
               /\ Cardinality({k \in 1..Len(f_out.out) :
                                 f_out.out[k].node = child}) = 1

\* ------------------------------------------------------ SubmissionContent
\* strip_praw_comment: the record of flattened node `node` of forest F, whose
\* upstream objects are numbered from base + 1. count = Nil: no 'count' key.
strip_praw_comment(F, base, node, level) ==
    IF IsMoreComments(F, node)
      THEN [type |-> "MoreComments", object |-> base + node, level |-> level,
            count |-> MoreCount(F, node), cache |-> << >>,
            offset |-> Nil, n_rows |-> Nil, split_body |-> [width |-> 0, lines |-> 0]]
      ELSE [type |-> "Comment", object |-> base + node, level |-> level,
            count |-> Nil, cache |-> << >>,
            offset |-> Nil, n_rows |-> Nil, split_body |-> [width |-> 0, lines |-> 0]]

\* [self.strip_praw_comment(c) for c in comments]
StripAll(F, base, out) ==
    [k \in 1..Len(out) |-> strip_praw_comment(F, base, out[k].node, out[k].level)]

\* The header record, and get(-1): wrap title and text to n_cols - 2.
strip_submission_header ==
    [type |-> "Submission", object |-> 0,
     split_title |-> [width |-> 0, lines |-> 0],
     split_text |-> [width |-> 0, lines |-> 0], n_rows |-> Nil, offset |-> Nil]

HeaderRewrap(data, n_cols) ==
    LET tl == wrap_text(TextLen(1), n_cols - 2)
        xl == wrap_text(TextLen(4), n_cols - 2)
    IN [data EXCEPT !.split_title = [width |-> n_cols - 2, lines |-> tl],
                    !.split_text = [width |-> n_cols - 2, lines |-> xl],
                    !.n_rows = tl + xl + 5,
                    !.offset = 0]

\* get on a comment record: offset from the capped level, body wrapped to what
\* is left of n_cols; a record that is no Comment takes one row.
CommentRewrap(data, n_cols) ==
    LET indent_level == Min(data.level, s_cap)
        offset == indent_level * indent_size
        lines == wrap_text(TextLen(data.object), n_cols - offset)
    IN IF data.type = "Comment"
         THEN [data EXCEPT !.offset = offset,
                           !.split_body = [width |-> n_cols - offset, lines |-> lines],
                           !.n_rows = lines + 1]
         ELSE [data EXCEPT !.offset = offset, !.n_rows = 1]

\* SubmissionContent.get(index, n_cols) on comment sequence cd and header hd:
\* the records are rewritten in place, so the sequences after the call are
\* part of the result.
SubmissionGet(cd, hd, index, n_cols) ==
    IF index < -1
      THEN [cd |-> cd, hd |-> hd, raised |-> "IndexError", result |-> NoRec]
    ELSE IF index = -1
      THEN LET data == HeaderRewrap(hd, n_cols)
           IN [cd |-> cd, hd |-> data, raised |-> "none", result |-> data]
    ELSE IF index >= Len(cd)
      THEN [cd |-> cd, hd |-> hd, raised |-> "IndexError", result |-> NoRec]
    ELSE LET data == CommentRewrap(cd[index + 1], n_cols)
         IN [cd |-> [cd EXCEPT ![index + 1] = data], hd |-> hd,
             raised |-> "none", result |-> data]

\* d.get('count', 1)
DictCount_one(d) == 1
DictCount(d) == IF d.count = Nil THEN 1 ELSE d.count

\* if d['level'] <= data['level']: break
EndsSubtree_offset(d, data) == d.offset <= data.offset
EndsSubtree_strict(d, data) == d.level < data.level
EndsSubtree(d, data) == d.level <= data.level

\* The Comment branch of toggle: for d in self.iterate(index + 1, 1, n_cols).
\* acc: [cd, cache, count]; j is the index iterate is at.
RECURSIVE CollectSubtree(_, _, _, _)
\* cache.append(d)
CacheAppend_front(cache, d) == <<d>> \o cache
CacheAppend(cache, d) == Append(cache, d)

CollectSubtree(data, j, n_cols, acc) ==
    LET g == SubmissionGet(acc.cd, NoRec, j, n_cols)
    IN IF g.raised # "none" THEN acc
       ELSE IF EndsSubtree(g.result, data) THEN [acc EXCEPT !.cd = g.cd]
       ELSE CollectSubtree(data, j + 1, n_cols,
                [cd |-> g.cd, cache |-> CacheAppend(acc.cache, g.result),
                 count |-> acc.count + DictCount(g.result)])

\* self._comment_data[index:index + n] = records
Splice_keep(cd, index, n, records) ==
    SubSeq(cd, 1, index) \o records \o SubSeq(cd, index + n, Len(cd))
Splice(cd, index, n, records) ==
    SubSeq(cd, 1, index) \o records \o SubSeq(cd, index + n + 1, Len(cd))

HiddenComment_uncounted(cache, count, level) ==
    [type |-> "HiddenComment", object |-> 0, level |-> level,
     count |-> 1, cache |-> cache,
     offset |-> Nil, n_rows |-> Nil, split_body |-> [width |-> 0, lines |-> 0]]
HiddenComment(cache, count, level) ==
    [type |-> "HiddenComment", object |-> 0, level |-> level,
     count |-> count, cache |-> cache,
     offset |-> Nil, n_rows |-> Nil, split_body |-> [width |-> 0, lines |-> 0]]

\* toggle on the header: `pass`. g is what self.get(index) left behind.
ToggleSubmission_clear(g) == [cd |-> << >>, hd |-> g.hd, raised |-> "none"]
ToggleSubmission(g) == [cd |-> g.cd, hd |-> g.hd, raised |-> "none"]

\* toggle on a record of any other tag: raise ValueError.
ToggleOther_pass(g) == [cd |-> g.cd, hd |-> g.hd, raised |-> "none"]
ToggleOther(g) == [cd |-> g.cd, hd |-> g.hd, raised |-> "ValueError"]

\* toggle(index, n_cols) without its MoreComments branch:
\* [cd, hd, raised, type] with type the tag of the record toggled.
ToggleLocal(cd, hd, index, n_cols) ==
    LET g == SubmissionGet(cd, hd, index, DefaultCols)
        data == g.result
    IN IF g.raised # "none"
         THEN [cd |-> cd, hd |-> hd, raised |-> g.raised, type |-> "None"]
       ELSE IF data.type = "Submission"
         THEN ToggleSubmission(g) @@ [type |-> data.type]
       ELSE IF data.type = "Comment"
         THEN LET acc == CollectSubtree(data, index + 1, n_cols,
                             [cd |-> g.cd, cache |-> <<data>>, count |-> 1])
                  comment == HiddenComment(acc.cache, acc.count, data.level)
              IN [cd |-> Splice(acc.cd, index, Len(acc.cache), <<comment>>),
                  hd |-> g.hd, raised |-> "none", type |-> data.type]
       ELSE IF data.type = "HiddenComment"
         THEN [cd |-> Splice(g.cd, index, 1, data.cache),
               hd |-> g.hd, raised |-> "none", type |-> data.type]
       ELSE ToggleOther(g) @@ [type |-> data.type]

\* The root level toggle hands to flatten_comments: data['level'].
FetchRootLevel_child(data) == data.level + 1
FetchRootLevel(data) == data.level

\* if not self._loader.exception: ... is skipped when the fetch raised.
FetchFailed_drop(cd, index) == Splice(cd, index, 1, << >>)
FetchFailed(cd, index) == cd

\* The MoreComments branch of toggle once the guarded fetch is over: the fetch
\* delivered forest F (fetched = TRUE) or raised inside the guard scope.
ToggleMore(cd, index, data, fetched, F, base) ==
    IF ~fetched
      THEN [cd |-> FetchFailed(cd, index), raised |-> "none",
            exception |-> LoaderException("fail")]
    ELSE LET r == flatten_comments(F, FetchRootLevel(data))
         IN IF r.raised # "none"
              THEN [cd |-> cd, raised |-> r.raised, exception |-> LoaderException("ok")]
              ELSE [cd |-> Splice(cd, index, 1, StripAll(F, base, r.out)),
                    raised |-> "none", exception |-> LoaderException("ok")]

\* The tag of the record at `index`, "None" when there is none.
TypeAt(cd, index) ==
    IF index < 0 \/ index >= Len(cd) THEN "None" ELSE cd[index + 1].type

\* The observer of collapse / expand pairs: stage 1 after a toggle on a Comment
\* (before = the sequence before it), stage 2 after the next call when that is
\* a toggle of the same index; any other call ends the pair.
\* Observer of two toggles in a row on one index, the first of them on a
\* record of tag first: the comment sequence before the first toggle.
SnapPair(first, isToggle, index, typ, before) ==
    IF isToggle /\ s_snap.stage = 1 /\ s_snap.index = index
      THEN [s_snap EXCEPT !.stage = 2]
    ELSE IF isToggle /\ typ = first
      THEN [stage |-> 1, index |-> index, before |-> before]
    ELSE [stage |-> 0, index |-> Nil, before |-> << >>]

SnapAfter(isToggle, index, typ, before) ==
    SnapPair("Comment", isToggle, index, typ, before)

\* SubmissionContent.__init__ on a submission whose comment forest is F.
SubmissionConstruct ==
    /\ s_obj = "new"
    /\ \E F \in ForestsOf(MaxNodes) :
         LET r == flatten_comments(F, 0)
         IN /\ s_obj' = IF r.raised = "none" THEN "live" ELSE "failed"
            /\ comment_data' = StripAll(F, 0, r.out)
            /\ s_next_id' = F.n + 1
            /\ s_last' = [op |-> "init", raised |-> r.raised, index |-> Nil, scopes |-> 0]
    /\ submission_data' = strip_submission_header
    /\ UNCHANGED <<s_cap, s_loader, s_snap, l_vars, f_vars, ld_vars, it_vars, p_vars>>

\* get(index, n_cols) by the page.
SubmissionGetCall(index, n_cols) ==
    /\ s_obj = "live"
    /\ LET g == SubmissionGet(comment_data, submission_data, index, n_cols)
       IN /\ comment_data' = g.cd
          /\ submission_data' = g.hd
          /\ s_last' = [op |-> "get", raised |-> g.raised, index |-> index, scopes |-> 0]
    /\ s_snap' = SnapAfter(FALSE, index, "None", << >>)
    /\ UNCHANGED <<s_cap, s_obj, s_loader, s_next_id, l_vars, f_vars, ld_vars, it_vars, p_vars>>

\* toggle(index) on the header, a Comment, a HiddenComment or out of range.
ToggleStep(first, index, n_cols) ==
    /\ s_obj = "live"
    /\ TypeAt(comment_data, index) # "MoreComments"
    /\ LET r == ToggleLocal(comment_data, submission_data, index, n_cols)
       IN /\ comment_data' = r.cd
          /\ submission_data' = r.hd
          /\ s_last' = [op |-> "toggle", raised |-> r.raised, index |-> index,
                         scopes |-> 0]
          /\ s_snap' = SnapPair(first, TRUE, index, r.type, comment_data)
    /\ UNCHANGED <<s_cap, s_obj, s_loader, s_next_id, l_vars, f_vars, ld_vars, it_vars, p_vars>>

\* toggle(index, n_cols), observed for a collapse followed by an expand
ToggleCall(index, n_cols) == ToggleStep("Comment", index, n_cols)

\* toggle(index) on a MoreComments record: the guarded fetch, then the splice.
ToggleMoreCall(index) ==
    /\ s_obj = "live"
    /\ TypeAt(comment_data, index) = "MoreComments"
    /\ LET g == SubmissionGet(comment_data, submission_data, index, DefaultCols)
       IN \E fetched \in BOOLEAN :
          \E F \in (IF fetched THEN ForestsOf(MaxNodes - (s_next_id - 1)) ELSE {[n |-> 0]}) :
            LET r == ToggleMore(g.cd, index, g.result, fetched, F, s_next_id - 1)
            IN /\ comment_data' = r.cd
               /\ s_loader' = [exception |-> r.exception, depth |-> 0]
               /\ s_next_id' = s_next_id + F.n
               /\ s_last' = [op |-> IF fetched THEN "load" ELSE "loadfail",
                             raised |-> r.raised, index |-> index, scopes |-> 1]
    /\ s_snap' = SnapAfter(TRUE, index, "MoreComments", comment_data)
    /\ UNCHANGED <<s_cap, s_obj, submission_data, l_vars, f_vars, ld_vars, it_vars, p_vars>>

SubmissionGetAny ==
    \E index \in -2..Len(comment_data) : SubmissionGetCall(index, DefaultCols)
ToggleAny == \E index \in -2..Len(comment_data) : ToggleCall(index, DefaultCols)
ToggleMoreAny == \E index \in 0..Len(comment_data) : ToggleMoreCall(index)

SubmissionNew ==
    /\ s_obj = "new"
    /\ comment_data = << >>
    /\ submission_data = NoRec
    /\ s_loader = [exception |-> "None", depth |-> 0]
    /\ s_next_id = 1
    /\ s_last = [op |-> "none", raised |-> "none", index |-> Nil, scopes |-> 0]
    /\ s_snap = [stage |-> 0, index |-> Nil, before |-> << >>]

\* SubmissionContent(submission, loader): max_indent_level is left at its default
SubmissionInit == SubmissionNew /\ s_cap = max_indent_level

\* SubmissionContent(submission, loader, max_indent_level=c) for a small c, so
\* that comments at and beyond the deepest indent occur in small forests
IndentCaps == {1}
IndentInit == SubmissionNew /\ s_cap \in IndentCaps

InitSubmission == SubmissionInit /\ ListingIdle /\ FlattenIdle /\ LoaderIdle /\ IterIdle /\ PageIdle
NextSubmission == SubmissionConstruct \/ SubmissionGetAny \/ ToggleAny \/ ToggleMoreAny
SpecSubmission == InitSubmission /\ [][NextSubmission]_vars

\* toggle(index), observed for an expand followed by a collapse
ExpandFirstAny ==
    \E index \in -2..Len(comment_data) : ToggleStep("HiddenComment", index, DefaultCols)
NextExpand == SubmissionConstruct \/ ExpandFirstAny \/ ToggleMoreAny
SpecExpand == InitSubmission /\ [][NextExpand]_vars

InitIndent ==
    IndentInit /\ ListingIdle /\ FlattenIdle /\ LoaderIdle /\ IterIdle /\ PageIdle
IndentGetAny ==
    \E index \in 0..Len(comment_data) : SubmissionGetCall(index, DefaultCols)
NextIndent == SubmissionConstruct \/ IndentGetAny \/ ToggleAny
SpecIndent == InitIndent /\ [][NextIndent]_vars

\* get returns the stored dict itself (`return data`), so its caller shares
\* the record with the content object. Retag is the caller writing a tag the
\* content module does not know into the record it was handed for `index`
\* (one such record in the sequence at a time).
ForeignTag == "Unknown"

Retag(index) ==
    /\ s_obj = "live"
    /\ TypeAt(comment_data, index) \in {"Comment", "MoreComments", "HiddenComment"}
    /\ \A k \in 1..Len(comment_data) : comment_data[k].type # ForeignTag
    /\ comment_data' = [comment_data EXCEPT ![index + 1].type = ForeignTag]
    /\ s_last' = [op |-> "retag", raised |-> "none", index |-> index, scopes |-> 0]
    /\ s_snap' = SnapAfter(FALSE, index, "None", << >>)
    /\ UNCHANGED <<s_cap, s_obj, submission_data, s_loader, s_next_id, l_vars, f_vars, ld_vars, it_vars, p_vars>>

RetagAny == \E index \in 0..Len(comment_data) : Retag(index)

NextRetag == SubmissionConstruct \/ ToggleAny \/ RetagAny
SpecRetag == InitSubmission /\ [][NextRetag]_vars

\* ------------------------------------------- listing or submission content
\* One content object of either kind, with the calls its page makes on it.
InitContent == InitListing \/ InitSubmission
NextContent == NextListing \/ NextSubmission
SpecContent == InitContent /\ [][NextContent]_vars

\* --------------------------------------------------------- Content.iterate
\* if step < 0 and index < 0: break
IterGuard_off(step, index) == FALSE
IterGuard(step, index) == step < 0 /\ index < 0

\* index += step
IterAdvance_one(index, step) == index + 1
IterAdvance(index, step) == index + step

\* except IndexError: break   (any other exception leaves the generator)
IterRaises(raised) == IF raised = "IndexError" THEN "none" ELSE raised

\* The generator after one run of the loop body whose get ended as g
\* (g.raised, g.result): it yields g.result, or it ends.
IterAfterGet(g) ==
    IF g.raised # "none"
      THEN [it EXCEPT !.status = "done", !.ended = g.raised,
                      !.raised = IterRaises(g.raised),
                      !.asked = @ \cup {it.index}]
      ELSE [it EXCEPT !.out = Append(@, it.index), !.last = g.result,
                      !.asked = @ \cup {it.index},
                      !.index = IterAdvance(it.index, it.step)]

\* The generator after the guard at the top of the loop stopped it.
IterAfterGuard == [it EXCEPT !.status = "done", !.ended = "guard"]

\* iterate(index, step, n_cols): the call only makes the generator; none of
\* its body runs before the consumer asks for an element.
IterStart(index, step, n_cols) ==
    /\ obj = "live" \/ s_obj = "live"
    /\ it.status = "none"
    /\ it' = [status |-> "active", start |-> index, step |-> step, n_cols |-> n_cols,
              index |-> index, out |-> << >>, last |-> NoRec, asked |-> {},
              ended |-> "none", raised |-> "none"]
    /\ UNCHANGED <<l_vars, f_vars, s_vars, ld_vars, p_vars>>

\* The consumer asks a generator over listing content for its next element.
IterNextListing ==
    /\ obj = "live"
    /\ it.status = "active"
    /\ Len(it.out) < MaxYield
    /\ IF IterGuard(it.step, it.index)
         THEN /\ it' = IterAfterGuard
              /\ UNCHANGED <<listing_data, pos, closed, loader_exception, l_last, l_hist>>
         ELSE LET g == ListingGet(it.index, it.n_cols)
              IN /\ listing_data' = g.store
                 /\ pos' = g.pos
                 /\ closed' = g.closed
                 /\ loader_exception' = g.exc
                 /\ l_last' = LastAfter("get", it.index, it.n_cols, g)
                 /\ l_hist' = HistAfter(it.index, g)
                 /\ it' = IterAfterGet(g)
    /\ UNCHANGED <<cls, obj, src, srcMode, f_vars, s_vars, ld_vars, p_vars>>

\* The consumer asks a generator over submission content for its next element.
IterNextSubmission ==
    /\ s_obj = "live"
    /\ it.status = "active"
    /\ Len(it.out) < MaxYield
    /\ IF IterGuard(it.step, it.index)
         THEN /\ it' = IterAfterGuard
              /\ UNCHANGED <<comment_data, submission_data, s_last, s_snap>>
         ELSE LET g == SubmissionGet(comment_data, submission_data, it.index, it.n_cols)
              IN /\ comment_data' = g.cd
                 /\ submission_data' = g.hd
                 /\ s_last' = [op |-> "get", raised |-> g.raised, index |-> it.index,
                               scopes |-> 0]
                 /\ s_snap' = SnapAfter(FALSE, it.index, "None", << >>)
                 /\ it' = IterAfterGet(g)
    /\ UNCHANGED <<s_obj, s_loader, s_next_id, s_cap, l_vars, f_vars, ld_vars, p_vars>>

IterStartAny ==
    \E index \in -2..MaxIndex, step \in Steps, n_cols \in Widths :
        IterStart(index, step, n_cols)

IterInit ==
    it = [status |-> "none", start |-> 0, step |-> 0, n_cols |-> 0, index |-> 0,
          out |-> << >>, last |-> NoRec, asked |-> {}, ended |-> "none",
          raised |-> "none"]

InitIterate ==
    /\ \/ ListingInit /\ SubmissionIdle
       \/ SubmissionInit /\ ListingIdle
    /\ FlattenIdle /\ LoaderIdle /\ PageIdle /\ IterInit
NextIterate ==
    \/ Construct \/ SubmissionConstruct
    \/ IterStartAny \/ IterNextListing \/ IterNextSubmission
SpecIterate == InitIterate /\ [][NextIterate]_vars

\* ------------------------------------------------------- SubscriptionPage
\* Navigator(self.content.get): a cursor over the content it is bound to
NavNew(content) == [content |-> content, absolute_index |-> 0]

\* The fields of a content object on which no constructor code has run yet,
\* over a new upstream request (reddit.get_my_subreddits).
FreshContent ==
    [store |-> << >>, pos |-> 1, closed |-> FALSE, exc |-> "None", pulls |-> 0,
     delivered |-> << >>, raised |-> "none", cause |-> "none"]

\* SubscriptionContent.from_user: a new content object, resolved at index 0
FromUser == ListingGetFrom(FreshContent, 0, DefaultCols)

\* The observers of the listing after a constructor that ended as g.
FreshLast(g) ==
    [op |-> "init", index |-> 0, n_cols |-> DefaultCols, lenBefore |-> 0,
     pulls |-> g.pulls, raised |-> g.raised, cause |-> g.cause, result |-> g.result,
     stopBefore |-> Nil, failBefore |-> Nil, repeat |-> FALSE]
FreshHist(g) ==
    [delivered |-> g.delivered, maxReq |-> 0, stopAt |-> Nil, failPos |-> Nil]

\* The page takes the content object that from_user returned as g.
TakeContent(g) ==
    /\ listing_data' = g.store
    /\ pos' = g.pos
    /\ closed' = g.closed
    /\ loader_exception' = g.exc
    /\ l_last' = FreshLast(g)
    /\ l_hist' = FreshHist(g)

\* A get of the page on its content object ended as g.
ContentAfterGet(index, g) ==
    /\ listing_data' = g.store
    /\ pos' = g.pos
    /\ closed' = g.closed
    /\ loader_exception' = g.exc
    /\ l_last' = LastAfter("get", index, DefaultCols, g)
    /\ l_hist' = HistAfter(index, g)

ContentUntouched ==
    UNCHANGED <<listing_data, pos, closed, loader_exception, l_last, l_hist>>

\* controller.trigger(cmd) is called by the loop after getch, or directly.
CanTrigger ==
    /\ p_obj = "live"
    /\ p_pc = "off" \/ (p_pc = "loop" /\ p_active = "True")

\* `while self.active` after a handler returned (or raised) inside loop()
PcAfter_stay(active, raised) == p_pc
PcAfter(active, raised) ==
    IF p_pc # "loop" THEN p_pc
    ELSE IF raised # "none" THEN "raised"
    ELSE IF active = "False" THEN "exited"
    ELSE "loop"

\* SubscriptionPage.__init__
PageConstruct ==
    /\ p_obj = "new" /\ obj = "new"
    /\ LET g == FromUser
       IN /\ obj' = ConstructOutcome(cls, g.raised)
          /\ TakeContent(g)
          /\ IF g.raised = "none"
               THEN /\ p_obj' = "live"
                    /\ p_content' = 1
                    /\ p_nav' = NavNew(1)
               ELSE /\ p_obj' = "failed"
                    /\ UNCHANGED <<p_content, p_nav>>
          /\ p_last' = [op |-> "init", raised |-> ConstructOutcome(cls, g.raised),
                        flash |-> FALSE, order |-> "None"]
    /\ UNCHANGED <<p_subreddit_data, p_active, p_pc, cls, src, srcMode,
                   f_vars, s_vars, ld_vars, it_vars>>

\* loop(): self.active = True, then the while loop
LoopEnter ==
    /\ p_obj = "live" /\ p_pc = "off"
    /\ p_pc' = "loop"
    /\ p_active' = "True"
    /\ p_last' = [op |-> "loop", raised |-> "none", flash |-> FALSE, order |-> "None"]
    /\ UNCHANGED <<p_obj, p_content, p_nav, p_subreddit_data,
                   l_vars, f_vars, s_vars, ld_vars, it_vars>>

\* if order: curses.flash(); return
RefreshRejects_never(order) == FALSE
RefreshRejects(order) == order # "None"

\* self.content = ...; self.nav = ... at the end of refresh_content
RefreshNav_keep(content) == p_nav
RefreshNav(content) == NavNew(content)

\* refresh_content(order)
RefreshContent(order) ==
    /\ CanTrigger
    /\ IF RefreshRejects(order)
         THEN /\ p_last' = [op |-> "refresh_content", raised |-> "none",
                            flash |-> TRUE, order |-> order]
              /\ p_pc' = PcAfter(p_active, "none")
              /\ ContentUntouched
              /\ UNCHANGED <<obj, p_content, p_nav>>
         ELSE /\ p_content < 1 + MaxRefresh
              /\ LET g == FromUser
                     e == ConstructOutcome(cls, g.raised)
                 IN IF g.raised = "none"
                      THEN /\ TakeContent(g)
                           /\ obj' = e
                           /\ p_content' = p_content + 1
                           /\ p_nav' = RefreshNav(p_content + 1)
                           /\ p_last' = [op |-> "refresh_content", raised |-> "none",
                                         flash |-> FALSE, order |-> order]
                           /\ p_pc' = PcAfter(p_active, "none")
                      ELSE /\ ContentUntouched
                           /\ UNCHANGED <<obj, p_content, p_nav>>
                           /\ p_last' = [op |-> "refresh_content", raised |-> e,
                                         flash |-> FALSE, order |-> order]
                           /\ p_pc' = PcAfter(p_active, e)
    /\ UNCHANGED <<p_obj, p_subreddit_data, p_active, cls, src, srcMode,
                   f_vars, s_vars, ld_vars, it_vars>>

\* self.active = False
Deactivate_skip == p_active
Deactivate == "False"

\* store_selected_subreddit()
StoreSelectedSubreddit ==
    /\ CanTrigger
    /\ LET g == ListingGet(p_nav.absolute_index, DefaultCols)
       IN /\ ContentAfterGet(p_nav.absolute_index, g)
          /\ IF g.raised = "none"
               THEN /\ p_subreddit_data' = g.result
                    /\ p_active' = Deactivate
               ELSE UNCHANGED <<p_subreddit_data, p_active>>
          /\ p_pc' = PcAfter(p_active', g.raised)
          /\ p_last' = [op |-> "store_selected_subreddit", raised |-> g.raised,
                        flash |-> FALSE, order |-> "None"]
    /\ UNCHANGED <<p_obj, p_content, p_nav, cls, obj, src, srcMode,
                   f_vars, s_vars, ld_vars, it_vars>>

\* close_subscriptions()
CloseSubscriptions ==
    /\ CanTrigger
    /\ p_active' = Deactivate
    /\ p_pc' = PcAfter(p_active', "none")
    /\ p_last' = [op |-> "close_subscriptions", raised |-> "none",
                  flash |-> FALSE, order |-> "None"]
    /\ UNCHANGED <<p_obj, p_content, p_nav, p_subreddit_data,
                   l_vars, f_vars, s_vars, ld_vars, it_vars>>

\* The cursor is moved by d: the navigator asks the content it is bound to
\* for the record at the new index and stays where it is (with a flash) when
\* there is none.
NavMove(d) ==
    /\ CanTrigger
    /\ LET i == p_nav.absolute_index + d
           g == ListingGet(i, DefaultCols)
       IN /\ ContentAfterGet(i, g)
          /\ p_nav' = IF g.raised = "none" THEN [p_nav EXCEPT !.absolute_index = i]
                      ELSE p_nav
          /\ p_last' = [op |-> "move", raised |-> "none",
                        flash |-> (g.raised # "none"), order |-> "None"]
    /\ p_pc' = PcAfter(p_active, "none")
    /\ UNCHANGED <<p_obj, p_content, p_subreddit_data, p_active, cls, obj, src,
                   srcMode, f_vars, s_vars, ld_vars, it_vars>>

\* What reddit delivers changes between two requests of the page: the user
\* has no subscription left, the network fails, or one subscription is back.
Outages == {s \in Sources : Len(s) <= 1}
UpstreamChange ==
    /\ p_obj = "live" /\ p_pc \in {"off", "loop"}
    /\ src' \in Outages \ {src}
    /\ UNCHANGED <<cls, obj, srcMode, pos, closed, listing_data, loader_exception,
                   l_last, l_hist, f_vars, s_vars, ld_vars, it_vars, p_vars>>

Orders == {"None", "hot"}
RefreshContentAny == \E order \in Orders : RefreshContent(order)
NavMoveAny == \E d \in {-1, 1} : NavMove(d)

PageInit ==
    /\ p_obj = "new" /\ p_content = 0 /\ p_nav = NavNew(0)
    /\ p_subreddit_data = NoRec /\ p_active = "None" /\ p_pc = "off"
    /\ p_last = [op |-> "none", raised |-> "none", flash |-> FALSE, order |-> "None"]

InitPage ==
    /\ ListingInit /\ cls = "Subscription" /\ srcMode = "generator"
    /\ PageInit
    /\ FlattenIdle /\ SubmissionIdle /\ LoaderIdle /\ IterIdle
NextPage ==
    \/ PageConstruct \/ LoopEnter \/ RefreshContentAny \/ StoreSelectedSubreddit
    \/ CloseSubscriptions \/ NavMoveAny \/ UpstreamChange
SpecPage == InitPage /\ [][NextPage]_vars

\* ------------------------------------------- LoadScreen (curses_helpers)
\* The innermost guard scope the main thread is inside.
TopScope == ld_scopes[Len(ld_scopes)]

\* __enter__: a new thread on animate, self._animator set to it, the flag
\* raised, the thread started. Nothing in it looks at a scope already active.
Enter ==
    /\ ld_obj = "live"
    /\ ld_started < MaxThreads
    /\ Len(ld_scopes) < MaxDepth
    /\ ld_scopes # << >> => TopScope.phase = "action"
    /\ LET t == ld_started + 1
       IN /\ ld_animator' = t
          /\ ld_is_running' = TRUE
          /\ ld_thread' = [ld_thread EXCEPT ![t] = [pc |-> "delay", drew |-> FALSE,
                                                    exitpc |-> "none", after |-> 0]]
          /\ ld_scopes' = Append(ld_scopes, [thread |-> t, phase |-> "action",
                                             outcome |-> "none"])
          /\ ld_started' = t
    /\ UNCHANGED <<ld_obj, ld_ended, ld_late, l_vars, f_vars, s_vars, it_vars, p_vars>>

\* The guarded action is over (it returned or raised) and __exit__ has run its
\* first statement: self._is_running = False.
ExitFlag(outcome) ==
    /\ ld_obj = "live"
    /\ ld_scopes # << >>
    /\ TopScope.phase = "action"
    /\ ld_is_running' = FALSE
    /\ ld_scopes' = [ld_scopes EXCEPT ![Len(ld_scopes)] =
                       [@ EXCEPT !.phase = "join", !.outcome = outcome]]
    /\ ld_thread' = [ld_thread EXCEPT ![TopScope.thread].exitpc =
                                        ld_thread[TopScope.thread].pc]
    /\ UNCHANGED <<ld_obj, ld_animator, ld_started, ld_ended, ld_late,
                   l_vars, f_vars, s_vars, it_vars, p_vars>>

\* self._animator.join() returns, and with it __exit__ (it returns None: an
\* exception of the action goes on to the caller).
ExitJoin ==
    /\ ld_obj = "live"
    /\ ld_scopes # << >>
    /\ TopScope.phase = "join"
    /\ ld_thread[ld_animator].pc = "done"
    /\ ld_ended' = ld_ended \cup {[thread |-> TopScope.thread,
                                    outcome |-> TopScope.outcome,
                                    depth |-> Len(ld_scopes)]}
    /\ ld_scopes' = SubSeq(ld_scopes, 1, Len(ld_scopes) - 1)
    /\ UNCHANGED <<ld_obj, ld_is_running, ld_animator, ld_thread, ld_started, ld_late,
                   l_vars, f_vars, s_vars, it_vars, p_vars>>

\* The scope that started thread t has ended.
Ended(t) == \E e \in ld_ended : e.thread = t

\* animate, first loop: `if not self._is_running: return` while the delay runs.
AnimDelayPoll(t) ==
    /\ ld_thread[t].pc = "delay"
    /\ ~ld_is_running
    /\ ld_thread' = [ld_thread EXCEPT ![t].pc = "done"]
    /\ UNCHANGED <<ld_obj, ld_is_running, ld_animator, ld_scopes, ld_started, ld_ended,
                   ld_late, l_vars, f_vars, s_vars, it_vars, p_vars>>

\* animate: the delay has elapsed, the window is made.
AnimDelayOver(t) ==
    /\ ld_thread[t].pc = "delay"
    /\ ld_thread' = [ld_thread EXCEPT ![t].pc = "check"]
    /\ UNCHANGED <<ld_obj, ld_is_running, ld_animator, ld_scopes, ld_started, ld_ended,
                   ld_late, l_vars, f_vars, s_vars, it_vars, p_vars>>

\* animate, frame loop: `if not self._is_running:` clear the window and return.
AnimCheck(t) ==
    /\ ld_thread[t].pc = "check"
    /\ ld_thread' = [ld_thread EXCEPT ![t].pc = IF ld_is_running THEN "draw" ELSE "done"]
    /\ UNCHANGED <<ld_obj, ld_is_running, ld_animator, ld_scopes, ld_started, ld_ended,
                   ld_late, l_vars, f_vars, s_vars, it_vars, p_vars>>

\* animate, frame loop: erase, border, addstr, refresh.
AnimDraw(t) ==
    /\ ld_thread[t].pc = "draw"
    /\ ld_thread[t].after < MaxLateFrames
    /\ ld_thread' = [ld_thread EXCEPT ![t] =
                       [@ EXCEPT !.pc = "sleep", !.drew = TRUE,
                                 !.after = IF ld_thread[t].exitpc # "none"
                                             THEN @ + 1 ELSE @]]
    /\ ld_late' = (ld_late \/ Ended(t))
    /\ UNCHANGED <<ld_obj, ld_is_running, ld_animator, ld_scopes, ld_started, ld_ended,
                   l_vars, f_vars, s_vars, it_vars, p_vars>>

\* animate, frame loop: time.sleep(interval) is over.
AnimWake(t) ==
    /\ ld_thread[t].pc = "sleep"
    /\ ld_thread' = [ld_thread EXCEPT ![t].pc = "check"]
    /\ UNCHANGED <<ld_obj, ld_is_running, ld_animator, ld_scopes, ld_started, ld_ended,
                   ld_late, l_vars, f_vars, s_vars, it_vars, p_vars>>

ExitFlagAny == \E outcome \in {"return", "raise"} : ExitFlag(outcome)
AnimStep(t) ==
    AnimDelayPoll(t) \/ AnimDelayOver(t) \/ AnimCheck(t) \/ AnimDraw(t) \/ AnimWake(t)
AnimAny == \E t \in 1..ld_started : AnimStep(t)

\* LoadScreen(stdscr): no thread, no scope, the flag unset.
LoaderInit ==
    /\ ld_obj = "live"
    /\ ld_is_running = FALSE
    /\ ld_animator = 0
    /\ ld_thread = [t \in 1..MaxThreads |-> [pc |-> "none", drew |-> FALSE,
                                               exitpc |-> "none", after |-> 0]]
    /\ ld_scopes = << >>
    /\ ld_started = 0
    /\ ld_ended = {}
    /\ ld_late = FALSE

InitLoader == LoaderInit /\ ListingIdle /\ FlattenIdle /\ SubmissionIdle /\ IterIdle /\ PageIdle
NextLoader == Enter \/ ExitFlagAny \/ ExitJoin \/ AnimAny
SpecLoader == InitLoader /\ [][NextLoader]_vars

\* --------------------------------------------------- submission: claims
\* A record without its width-bound display fields: its tag, upstream object,
\* depth, count and (for a HiddenComment) the records it buffers.
RECURSIVE Skel(_)
Skel(d) ==
    [type |-> d.type, object |-> d.object, level |-> d.level, count |-> d.count,
     cache |-> [k \in 1..Len(d.cache) |-> Skel(d.cache[k])]]
SkelSeq(cd) == [k \in 1..Len(cd) |-> Skel(cd[k])]

\* C7: toggle(i) on a Comment followed by toggle(i) leaves the comment
\* sequence as it was before the first toggle: same length, same records in
\* the same order, same depths.
C7_ToggleTwiceRestores ==
    s_snap.stage = 2 => SkelSeq(comment_data) = SkelSeq(s_snap.before)

\* C7 witness: a collapse / expand pair on a comment whose subtree held an
\* already-hidden comment.
C7_Witness ==
    /\ s_snap.stage = 2
    /\ Len(s_snap.before) >= s_snap.index + 2
    /\ s_snap.before[s_snap.index + 2].type = "HiddenComment"
    /\ s_snap.before[s_snap.index + 2].level > s_snap.before[s_snap.index + 1].level

\* What a record counts for by its tag: 1 for a Comment, the declared count
\* for a continuation marker, the stored count for a hidden comment.
RecCount(d) ==
    CASE d.type = "Comment" -> 1
      [] d.type = "MoreComments" -> d.count
      [] d.type = "HiddenComment" -> d.count
      [] OTHER -> 0

RECURSIVE SumCounts(_)
SumCounts(ds) == IF ds = << >> THEN 0 ELSE RecCount(Head(ds)) + SumCounts(Tail(ds))

RECURSIVE HiddenCountOK(_)
HiddenCountOK(d) ==
    d.type = "HiddenComment" =>
        /\ Len(d.cache) >= 1
        /\ d.cache[1].type = "Comment"
        /\ d.count = 1 + SumCounts(Tail(d.cache))
        /\ \A k \in 1..Len(d.cache) : HiddenCountOK(d.cache[k])

TwoLeafChildren(d) ==
    /\ d.type = "HiddenComment" /\ Len(d.cache) = 3
    /\ \A k \in 1..3 : d.cache[k].type = "Comment"
    /\ d.cache[2].level = d.level + 1 /\ d.cache[3].level = d.level + 1

\* C8: the count stored in a HiddenComment is 1 plus what every record it
\* subsumes counts for; a comment with two leaf comment children gives 3.
C8_HiddenCount ==
    \A k \in 1..Len(comment_data) :
        /\ HiddenCountOK(comment_data[k])
        /\ TwoLeafChildren(comment_data[k]) => comment_data[k].count = 3

\* C8 witness: a comment with two leaf comment children has been collapsed.
C8_Witness ==
    /\ s_last.op = "toggle"
    /\ \E k \in 1..Len(comment_data) :
         TwoLeafChildren(comment_data[k]) /\ comment_data[k].count = 3

\* C9: the comment sequence is always a valid preorder depth sequence: the
\* first record has depth 0, no record is more than one deeper than the record
\* before it, and each record of depth d > 0 has an earlier record of depth
\* d - 1 with no record shallower than d in between.
C9_ValidDepths ==
    /\ Len(comment_data) > 0 => comment_data[1].level = 0
    /\ \A k \in 1..Len(comment_data) : comment_data[k].level >= 0
    /\ \A k \in 2..Len(comment_data) :
          comment_data[k].level <= comment_data[k - 1].level + 1
    /\ \A k \in 1..Len(comment_data) :
          comment_data[k].level > 0 =>
            \E m \in 1..(k - 1) :
              /\ comment_data[m].level = comment_data[k].level - 1
              /\ \A q \in (m + 1)..(k - 1) :
                   comment_data[q].level >= comment_data[k].level

\* C9 witness: a continuation load has spliced a fetched comment below depth 0.
C9_Witness ==
    /\ s_last.op = "load" /\ s_last.raised = "none"
    /\ \E k \in 1..Len(comment_data) :
         /\ comment_data[k].level >= 1
         /\ comment_data[k].object = s_next_id - 1

\* A step of toggle on the continuation marker at index i: every record but
\* the one at i is left as it is.
RestUntouched(before, after, i) ==
    /\ Len(after) = Len(before)
    /\ \A k \in 1..Len(before) : k # i + 1 => after[k] = before[k]

\* C13: when the guarded fetch of toggle on a MoreComments record raises, the
\* comment sequence after toggle is the sequence before it: the marker is
\* still at the same index and no record was added, removed or replaced.
C13_FailedFetchKeepsSequence ==
    [][s_last'.op = "loadfail" =>
         /\ SkelSeq(comment_data') = SkelSeq(comment_data)
         /\ RestUntouched(comment_data, comment_data', s_last'.index)
         /\ comment_data'[s_last'.index + 1].type = "MoreComments"
         /\ comment_data'[s_last'.index + 1].object
              = comment_data[s_last'.index + 1].object]_vars

\* C13 witness: a toggle on a marker in the middle of a longer sequence has
\* had its fetch fail; the marker is where it was.
C13_Witness ==
    /\ s_last.op = "loadfail"
    /\ s_loader.exception = "FetchError"
    /\ Len(comment_data) >= 2
    /\ comment_data[s_last.index + 1].type = "MoreComments"

\* The levels ls are those of a flattened forest rooted at depth L: the first
\* is L, none is above L, none is more than one below its predecessor.
RootedAt(ls, L) ==
    /\ ls # << >> => ls[1] = L
    /\ \A k \in 1..Len(ls) : ls[k] >= L
    /\ \A k \in 2..Len(ls) : ls[k] <= ls[k - 1] + 1

\* C14 (as claimed): when toggle on the MoreComments record at index i with
\* depth L fetches successfully, the new sequence is old[0..i), then the
\* flattened fetched subtree with its roots at depth L, then old[i+1..end):
\* the marker is gone, every new record has depth >= L, no other record
\* changes.
C14_LoadSplices ==
    [][s_last'.op = "load" =>
         LET i == s_last'.index
             old == comment_data
             new == comment_data'
             n == Len(new) - Len(old) + 1
             fresh == SubSeq(new, i + 1, i + n)
         IN /\ n >= 0
            /\ SubSeq(new, 1, i) = SubSeq(old, 1, i)
            /\ SubSeq(new, i + n + 1, Len(new)) = SubSeq(old, i + 2, Len(old))
            /\ \A k \in 1..Len(fresh) :
                 /\ fresh[k].object >= s_next_id
                 /\ fresh[k].type \in {"Comment", "MoreComments"}
            /\ RootedAt([k \in 1..Len(fresh) |-> fresh[k].level], old[i + 1].level)
            /\ \A k \in 1..Len(new) : new[k].object # old[i + 1].object]_vars

\* C15: toggle(-1), the header, leaves the comment sequence unchanged, keeps
\* the header a Submission record, raises nothing and enters no guard scope.
C15_HeaderToggleNoOp ==
    [][(s_last'.op = "toggle" /\ s_last'.index = -1) =>
         /\ comment_data' = comment_data
         /\ submission_data'.type = "Submission"
         /\ submission_data'.object = submission_data.object
         /\ s_last'.raised = "none"
         /\ s_last'.scopes = 0
         /\ s_loader' = s_loader]_vars

\* C15 witness: the header has been toggled over a sequence that holds a
\* comment and a continuation marker.
C15_Witness ==
    /\ s_last.op = "toggle" /\ s_last.index = -1 /\ s_last.raised = "none"
    /\ submission_data.type = "Submission"
    /\ \E k \in 1..Len(comment_data) : comment_data[k].type = "Comment"
    /\ \E k \in 1..Len(comment_data) : comment_data[k].type = "MoreComments"

\* C16: toggle on a record whose tag is none of Submission, Comment,
\* HiddenComment, MoreComments raises ValueError to the caller and leaves the
\* comment sequence unchanged.
C16_UnknownTagRaises ==
    [][(/\ s_last'.op = "toggle"
        /\ TypeAt(comment_data, s_last'.index)
             \notin {"None", "Submission", "Comment", "HiddenComment", "MoreComments"}) =>
         /\ s_last'.raised = "ValueError"
         /\ SkelSeq(comment_data') = SkelSeq(comment_data)
         /\ RestUntouched(comment_data, comment_data', s_last'.index)]_vars

\* C16 witness: toggle has raised ValueError on a record of a foreign tag
\* that sits between other records.
C16_Witness ==
    /\ s_last.op = "toggle" /\ s_last.raised = "ValueError"
    /\ TypeAt(comment_data, s_last.index) = ForeignTag
    /\ Len(comment_data) >= 2

\* ------------------------------------------------------- loader: claims
\* C17 (as claimed): for every guard scope, entered alone or while another
\* scope of the same LoadScreen is active, the indicator thread its entry
\* started has terminated when its exit returns, and no indicator thread
\* draws after its scope has ended.
C17_ThreadsJoinedAtExit ==
    /\ \A e \in ld_ended : ld_thread[e.thread].pc = "done"
    /\ ~ld_late

\* C19 (as claimed): a guard scope is never entered while another scope of the
\* same loader is active; no two scopes of a loader are active at once.
C19_OneScopeAtATime == Len(ld_scopes) <= 1

\* C33 (as claimed): an indicator thread draws no frame before its delay has
\* elapsed, draws no frame at all when the exit of its guard scope cleared
\* the flag before the delay had elapsed, and once it draws, two frames are
\* separated by one interval sleep.
C33_FramesAfterDelayOnly ==
    [][\A t \in 1..MaxThreads :
         /\ ld_thread'[t].pc = "delay" => ~ld_thread'[t].drew
         /\ ld_thread'[t].exitpc = "delay" => ~ld_thread'[t].drew
         /\ (ld_thread[t].pc = "draw" /\ ld_thread'[t].pc # "draw") =>
               ld_thread'[t].pc = "sleep"
         /\ (ld_thread[t].pc = "sleep" /\ ld_thread'[t].pc # "sleep") =>
               ld_thread'[t].pc = "check"
         /\ (ld_thread[t].pc # "draw" /\ ld_thread'[t].pc = "draw") =>
               ld_thread[t].pc = "check"]_vars

\* C34 (as claimed): after the exit of a guard scope has cleared the running
\* flag, the indicator thread of that scope draws at most one more frame
\* before it terminates.
C34_OneFrameAfterExit ==
    \A t \in 1..MaxThreads : ld_thread[t].after <= 1

\* ------------------------------------------------------ content: claims
\* C20: get(index, w) called a second time right after a get(index, w) that
\* returned a record (no toggle, no refresh, no other call in between) returns
\* an equal record and leaves the content state as the first call left it; the
\* position prefix of a listing title is not applied a second time.
C20_GetTwice ==
    [][/\ l_last'.op = "get" /\ l_last'.repeat =>
            /\ l_last'.raised = "none"
            /\ l_last'.pulls = 0
            /\ l_last'.result = l_last.result
            /\ listing_data' = listing_data
            /\ cls = "Subreddit" => Len(l_last'.result.title.prefix) = 1
       /\ (/\ s_last.op = "get" /\ s_last.raised = "none"
           /\ s_last'.op = "get" /\ s_last'.index = s_last.index) =>
            /\ s_last'.raised = "none"
            /\ comment_data' = comment_data
            /\ submission_data' = submission_data]_vars

\* C20 witness: a submission listing has answered the same get(index, w) twice
\* in a row, for a record past the first and a width that is not the default.
C20_Witness ==
    /\ cls = "Subreddit" /\ l_last.op = "get" /\ l_last.repeat
    /\ l_last.index >= 1 /\ l_last.n_cols # DefaultCols
    /\ l_last.raised = "none"
    /\ Len(l_last.result.title.prefix) = 1

\* ------------------------------------------------------ iterate: claims
\* What get(index, n_cols) on the live content object would answer now.
IterGetAt(index, n_cols) ==
    IF obj = "live" THEN ListingGet(index, n_cols)
    ELSE SubmissionGet(comment_data, submission_data, index, n_cols)

\* The generator has been made and has not been left idle.
IterMade == it.status \in {"active", "done"}

\* C21 as stated: iterate yields get(start), get(start + step), ... up to but
\* excluding the first index whose get signals out-of-range; so a generator
\* that has ended stands at an index whose get signals out-of-range.
C21_EndsAtOutOfRange ==
    it.status = "done" =>
        \/ it.index \in it.asked /\ it.ended = "IndexError"
        \/ IterGetAt(it.index, it.n_cols).raised = "IndexError"

\* C21 amended: iterate(start, step, w) yields get(start, w),
\* get(start + step, w), ... in that order, up to but excluding the first
\* index whose get signals out-of-range or, with a negative step, the first
\* index below 0 (for which get is not called); it then ends without raising.
\* Making the generator calls no get, and each element asked for costs at
\* most one get, for the index of that element.
C21_IterateYields ==
    [][/\ (it.status = "none" /\ it'.status = "active") =>
            UNCHANGED <<l_vars, s_vars>>
       /\ (it.status = "active" /\ it' # it) =>
            LET idx == it.start + Len(it.out) * it.step
                g == IterGetAt(idx, it.n_cols)
                low == it.step < 0 /\ idx < 0
            IN /\ it'.raised = "none"
               /\ IF low \/ g.raised = "IndexError"
                    THEN it'.status = "done" /\ it'.out = it.out
                    ELSE /\ it'.status = "active"
                         /\ it'.out = Append(it.out, idx)
                         /\ it'.last = g.result
               /\ it'.asked = IF low THEN it.asked ELSE it.asked \cup {idx}
               /\ low => UNCHANGED <<l_vars, s_vars>>]_vars

\* C21 witness: a backward generator over submission content has yielded two
\* comments and was ended below index 0 without a get of the header.
C21_Witness ==
    /\ s_obj = "live" /\ it.status = "done" /\ it.ended = "guard"
    /\ it.step = -1 /\ it.out = <<1, 0>> /\ it.asked = {0, 1}

\* C22: for every start and every step, iterate produces a finite sequence;
\* a generator never yields more records than the content has valid indices.
C22_IterateFinite ==
    IterMade =>
        Len(it.out) <= IF obj = "live" THEN Len(listing_data)
                       ELSE Len(comment_data) + 1

\* C23: with a negative step iterate never calls get with an index below 0 and
\* never yields the header; iterate(-1, -1, w) yields nothing, and a backward
\* run over a listing yields records down to index 0 at the lowest and then
\* ends without an error.
C23_NoHeaderBackward ==
    (IterMade /\ it.step < 0) =>
        /\ \A i \in it.asked : i >= 0
        /\ \A k \in 1..Len(it.out) : it.out[k] >= 0
        /\ s_obj = "live" => it.last.type # "Submission"
        /\ it.raised = "none"
        /\ (it.status = "done" /\ it.start < 0) => it.out = << >> /\ it.asked = {}
        /\ (it.status = "done" /\ it.out # << >>) =>
              it.ended = "guard" \/ it.out[Len(it.out)] + it.step >= 0

\* C23 witness: a backward generator over submission content started at the
\* header index has ended, with nothing yielded and no get made.
C23_Witness ==
    /\ s_obj = "live" /\ Len(comment_data) >= 1
    /\ it.status = "done" /\ it.start = -1 /\ it.step = -1
    /\ it.out = << >> /\ it.asked = {}

\* C29: an index below the valid minimum (below -1 for submission content,
\* below 0 for a listing) is not treated as exhaustion: a generator started
\* with a positive step from such an index ends with an error.
C29_BelowMinimumSurfaces ==
    (/\ it.status = "done" /\ it.step > 0
     /\ it.start < (IF obj = "live" THEN 0 ELSE -1)) => it.raised # "none"

\* --------------------------------------------------------- page: claims
\* The step is a call of the handler named op that changed the page.
PageDid(op) == p_last'.op = op /\ p_vars' # p_vars

\* C25: refresh_content without an order replaces the content by a newly
\* constructed SubscriptionContent whose store is rebuilt from upstream index 0
\* (the probe of index 0 runs during the refresh, no old record is kept) and
\* replaces the navigator by a new one bound to the new content; when the
\* construction fails the error is raised by the refresh itself, and the page
\* keeps what it had.
C25_RefreshRebuilds ==
    [][(PageDid("refresh_content") /\ p_last'.order = "None") =>
         IF src # << >> /\ src[1] = "ok"
           THEN /\ p_last'.raised = "none"
                /\ p_content' > p_content
                /\ p_nav'.content = p_content' /\ p_nav' # p_nav
                /\ l_last'.op = "init" /\ l_last'.pulls = 1
                /\ l_last'.raised = "none"
                /\ Len(listing_data') = 1 /\ pos' = 2
                /\ listing_data'[1].object = 1
                /\ listing_data'[1].split_title.width = DefaultCols
                /\ l_hist'.delivered = <<1>>
           ELSE /\ p_last'.raised = "SubscriptionError"
                /\ UNCHANGED <<p_content, p_nav, l_vars>>]_vars

\* C25 witness: inside the loop a refresh without order has replaced a content
\* object by another, whose store holds the one record of index 0 although
\* the upstream has more.
C25_Witness ==
    /\ p_pc = "loop" /\ p_last.op = "refresh_content" /\ p_last.order = "None"
    /\ p_last.raised = "none" /\ p_content = 2 /\ p_nav = [content |-> 2, absolute_index |-> 0]
    /\ Len(src) >= 2 /\ Len(listing_data) = 1

\* C26: refresh_content with an order flashes the screen and leaves the
\* content object, its store and the navigator as they were; it makes no
\* upstream pull.
C26_OrderedRefreshFlashes ==
    [][(PageDid("refresh_content") /\ p_last'.order # "None") =>
         /\ p_last'.flash /\ p_last'.raised = "none"
         /\ UNCHANGED <<p_content, p_nav, p_subreddit_data, p_active, l_vars>>]_vars

\* C26 witness: a refresh with an order has flashed on a page whose cursor
\* had moved and whose store holds several records.
C26_Witness ==
    /\ p_last.op = "refresh_content" /\ p_last.order = "hot" /\ p_last.flash
    /\ p_nav.absolute_index >= 1 /\ Len(listing_data) >= 2 /\ p_content = 1

\* C27: store_selected_subreddit sets subreddit_data to the record at the
\* navigator's current absolute index (never None) and sets active to False,
\* so that the page loop exits without processing another command.
C27_SelectStoresAndExits ==
    [][/\ PageDid("store_selected_subreddit") =>
            /\ p_last'.raised = "none"
            /\ l_last'.op = "get" /\ l_last'.index = p_nav.absolute_index
            /\ p_subreddit_data' = l_last'.result
            /\ p_subreddit_data' = listing_data'[p_nav.absolute_index + 1]
            /\ p_subreddit_data' # NoRec
            /\ p_active' = "False"
            /\ p_pc = "loop" => p_pc' = "exited"
            /\ p_nav' = p_nav
       /\ (p_pc = "exited" /\ p_last.op = "store_selected_subreddit") =>
            UNCHANGED <<p_vars, l_vars>>]_vars

\* C27 witness: the loop has exited on a selection made with the cursor past
\* the first record of a refreshed content object.
C27_Witness ==
    /\ p_pc = "exited" /\ p_last.op = "store_selected_subreddit"
    /\ p_content = 2 /\ p_nav.absolute_index >= 1 /\ p_active = "False"
    /\ p_subreddit_data = listing_data[p_nav.absolute_index + 1]

\* C28: close_subscriptions sets active to False, leaves subreddit_data as it
\* was (None when nothing was selected) and changes neither the content store
\* nor the navigator.
C28_CloseOnlyDeactivates ==
    [][PageDid("close_subscriptions") =>
         /\ p_active' = "False"
         /\ p_pc = "loop" => p_pc' = "exited"
         /\ UNCHANGED <<p_subreddit_data, p_content, p_nav, l_vars>>]_vars

\* C28 witness: the loop has exited on a close with the cursor moved and
\* nothing selected.
C28_Witness ==
    /\ p_pc = "exited" /\ p_last.op = "close_subscriptions"
    /\ p_active = "False" /\ p_subreddit_data = NoRec
    /\ p_nav.absolute_index >= 1

\* ------------------------------------------------------- indent: claims
\* A record that a get has returned (and every record it buffers) carries the
\* offset of its depth, held at the deepest indent.
RECURSIVE OffsetOK(_)
OffsetOK(d) ==
    /\ d.offset # Nil => d.offset = Min(d.level, s_cap) * indent_size
    /\ \A k \in 1..Len(d.cache) : OffsetOK(d.cache[k])

\* The number of records right after index i whose depth is greater than the
\* depth of the record at i.
DeeperAfter(cd, i) ==
    LET run == {n \in 0..(Len(cd) - i - 1) :
                  \A j \in 1..n : cd[i + 1 + j].level > cd[i + 1].level}
    IN CHOOSE n \in run : \A m \in run : m <= n

\* C30: for every record get sets offset = min(level, max_indent_level) *
\* indent_size and leaves level as it is; toggle on a Comment at or beyond
\* max_indent_level collapses exactly the records that follow it with a
\* strictly greater level, although they have the same offset as the comment.
C30_IndentClampedLevelKept ==
    [][/\ \A k \in 1..Len(comment_data') : OffsetOK(comment_data'[k])
       /\ (s_last'.op = "get" /\ s_last'.raised = "none" /\ s_last'.index >= 0) =>
            /\ comment_data'[s_last'.index + 1].offset =
                 Min(comment_data[s_last'.index + 1].level, s_cap) * indent_size
            /\ SkelSeq(comment_data') = SkelSeq(comment_data)
       /\ LET i == s_last'.index
              cd == comment_data
          IN (/\ s_last'.op = "toggle" /\ i >= 0 /\ i < Len(cd)
              /\ cd[i + 1].type = "Comment" /\ cd[i + 1].level >= s_cap) =>
               LET k == DeeperAfter(cd, i)
                   hidden == comment_data'[i + 1]
               IN /\ Len(comment_data') = Len(cd) - k
                  /\ hidden.type = "HiddenComment"
                  /\ hidden.level = cd[i + 1].level
                  /\ Len(hidden.cache) = k + 1
                  /\ \A j \in 0..k : Skel(hidden.cache[j + 1]) = Skel(cd[i + 1 + j])
                  /\ \A j \in 0..k : hidden.cache[j + 1].offset = s_cap * indent_size
                  /\ \A m \in 1..i : Skel(comment_data'[m]) = Skel(cd[m])
                  /\ \A m \in (i + 2 + k)..Len(cd) :
                       Skel(comment_data'[m - k]) = Skel(cd[m])]_vars

\* C30 witness: a comment at the deepest indent has been collapsed together
\* with a deeper reply that was drawn at the same offset.
C30_Witness ==
    /\ s_cap = 1 /\ s_last.op = "toggle" /\ s_last.raised = "none"
    /\ s_last.index >= 1 /\ s_last.index < Len(comment_data)
    /\ LET hidden == comment_data[s_last.index + 1]
       IN /\ hidden.type = "HiddenComment" /\ Len(hidden.cache) = 2
          /\ hidden.cache[1].level = s_cap
          /\ hidden.cache[2].level > hidden.cache[1].level
          /\ hidden.cache[2].offset = hidden.cache[1].offset
          /\ hidden.cache[1].offset = indent_size

\* ------------------------------------------------ collapse / expand: claims
\* The step is a toggle that returned, on the record at index i, which was a
\* record of tag typ before the step.
ToggledAt(i, typ) ==
    /\ s_last'.op = "toggle" /\ s_last'.raised = "none" /\ s_last'.index = i
    /\ s_last' # s_last \/ comment_data' # comment_data
    /\ i >= 0 /\ i < Len(comment_data)
    /\ comment_data[i + 1].type = typ

\* C31: toggle on a Comment at index i replaces exactly the maximal contiguous
\* run made of record i and the following records of strictly greater level by
\* one HiddenComment at index i with the level of record i; the records before
\* i and after the run are the same records in the same order (the record
\* that ended the run was read by a get, which rewrites its display fields).
C31_CollapseReplacesRun ==
    [][\A i \in 0..(Len(comment_data) - 1) :
         ToggledAt(i, "Comment") =>
           LET cd == comment_data
               k == DeeperAfter(cd, i)
               hidden == comment_data'[i + 1]
           IN /\ Len(comment_data') = Len(cd) - k
              /\ hidden.type = "HiddenComment"
              /\ hidden.level = cd[i + 1].level
              /\ Len(hidden.cache) = k + 1
              /\ \A j \in 0..k : Skel(hidden.cache[j + 1]) = Skel(cd[i + 1 + j])
              /\ \A m \in 1..i : comment_data'[m] = cd[m]
              /\ i + 2 + k <= Len(cd) =>
                    /\ cd[i + 2 + k].level <= cd[i + 1].level
                    /\ Skel(comment_data'[i + 2]) = Skel(cd[i + 2 + k])
              /\ \A m \in (i + 3 + k)..Len(cd) : comment_data'[m - k] = cd[m]]_vars

\* C31 witness: a comment has been collapsed with at least one reply, and the
\* run ended at a record that is not deeper, which the toggle read by a get.
C31_Witness ==
    /\ s_last.op = "toggle" /\ s_last.raised = "none"
    /\ s_last.index >= 0 /\ s_last.index + 2 <= Len(comment_data)
    /\ LET hidden == comment_data[s_last.index + 1]
       IN /\ hidden.type = "HiddenComment" /\ Len(hidden.cache) >= 2
          /\ comment_data[s_last.index + 2].level <= hidden.level
          /\ comment_data[s_last.index + 2].offset # Nil

\* C35: the sum over the comment sequence of what each record counts for (1
\* for a Comment, the declared count for a continuation marker, the stored
\* count for a HiddenComment) is the same after a collapse or an expand as
\* before it.
C35_TogglesKeepTotal ==
    [][\A i \in 0..(Len(comment_data) - 1) :
         (ToggledAt(i, "Comment") \/ ToggledAt(i, "HiddenComment")) =>
            SumCounts(comment_data') = SumCounts(comment_data)]_vars

\* C35 witness: a comment has been collapsed together with a continuation
\* marker that stands for more than one comment.
C35_Witness ==
    /\ s_last.op = "toggle" /\ s_last.raised = "none"
    /\ s_last.index >= 0 /\ s_last.index < Len(comment_data)
    /\ LET hidden == comment_data[s_last.index + 1]
       IN /\ hidden.type = "HiddenComment"
          /\ \E j \in 2..Len(hidden.cache) :
               hidden.cache[j].type = "MoreComments" /\ hidden.cache[j].count >= 2
          /\ hidden.count >= 3

\* C36: an expand of the HiddenComment at index i followed by a toggle of
\* index i gives a HiddenComment at i with the same level, the same count and
\* the same buffered records in the same order as the one expanded, and every
\* other record of the sequence is the record it was.
C36_ExpandCollapseRestores ==
    s_snap.stage = 2 =>
        LET i == s_snap.index
            old == s_snap.before[i + 1]
            new == comment_data[i + 1]
        IN /\ Len(comment_data) = Len(s_snap.before)
           /\ old.type = "HiddenComment" /\ new.type = "HiddenComment"
           /\ new.level = old.level
           /\ new.count = old.count
           /\ SkelSeq(new.cache) = SkelSeq(old.cache)
           /\ \A m \in 1..Len(comment_data) :
                m # i + 1 => Skel(comment_data[m]) = Skel(s_snap.before[m])

\* C36 witness: a HiddenComment that buffers at least two records, followed by
\* another record, has been expanded and collapsed again.
C36_Witness ==
    /\ s_snap.stage = 2 /\ s_last.op = "toggle"
    /\ s_snap.before[s_snap.index + 1].type = "HiddenComment"
    /\ Len(s_snap.before[s_snap.index + 1].cache) >= 2
    /\ Len(s_snap.before) >= s_snap.index + 2
    /\ comment_data[s_snap.index + 1].type = "HiddenComment"

====
